---- MODULE Spec2Model ----
(***************************************************************************)
(* A model of client.py, the Alpha Vantage client.                         *)
(*                                                                         *)
(* A Client holds apikey, base_url and max_attempts.  Each public method   *)
(* asserts its enumerated arguments, builds the parameter dict, performs   *)
(* one requests.get, calls raise_for_status and hands the response to      *)
(* process_csv or process_json.  A call is modelled in two steps, split at *)
(* the blocking requests.get: the method up to the GET, then the           *)
(* transport's answer with the rest of the method.  Return gives control   *)
(* back to the caller, where the call's locals are gone.                   *)
(***************************************************************************)
EXTENDS Integers, Sequences, FiniteSets, TLC

VARIABLES
    apikey,        \* self.apikey
    base_url,      \* self.base_url
    max_attempts,  \* self.max_attempts
    ctor,          \* history: the arguments the constructor was given
    pc,            \* "idle", "sent" (inside requests.get), "done"; "parse", "parsed" for process_csv alone
    call,          \* the running call: the method and its arguments
    params,        \* the params dict of the running call, in insertion order
    gets,          \* requests.get invocations of the running call
    response,      \* r, the transport's response
    normalizer,    \* which of process_csv / process_json the call invoked
    returned,      \* the value the call returned
    raised         \* the exception the call raised

vars == <<apikey, base_url, max_attempts, ctor, pc, call, params, gets,
          response, normalizer, returned, raised>>

(***************************************************************************)
(* Bounds of the model.                                                    *)
(***************************************************************************)
MaxAttempts == 2      \* the constructor is given max_attempts in 0..MaxAttempts
MaxSymLen == 2        \* symbols have 1..MaxSymLen characters
MaxCols == 2          \* a delimited body's header has 1..MaxCols cells
MaxRows == 2          \* a delimited body has 0..MaxRows data rows

DefaultMaxAttempts == 3

Tokens == {"demo", "KEY2"}
Chars == {"a", "B", "1"}
Periods == {-1, 0, 14}
CallSymbols == {<<"a", "B">>, <<"B", "1">>}
CallPeriods == {0, 14}
Bools == {TRUE, FALSE}

NoArg == "-"          \* an argument the method does not have
None == [kind |-> "none"]

(***************************************************************************)
(* Module-level sets of client.py.                                         *)
(***************************************************************************)
intervals == {"1min", "5min", "15min", "30min", "60min", "daily", "weekly", "monthly"}
series_types == {"close", "open", "high", "low"}
data_formats == {"json", "csv"}
output_sizes == {"full", "compact"}

\* What a caller may pass: every allowed value and one that is not allowed.
AnyInterval == intervals \cup {"hourly"}
AnySeriesType == series_types \cup {"volume"}
AnyDataFormat == data_formats \cup {"xml"}
AnyOutputSize == output_sizes \cup {"medium"}

(***************************************************************************)
(* str.upper() and str(int).                                               *)
(***************************************************************************)
upper_char(ch) ==
    CASE ch = "a" -> "A"
      [] ch = "b" -> "B"
      [] OTHER -> ch

\* The symbol sent as given.
upper_verbatim(s) == s

upper(s) == [i \in 1..Len(s) |-> upper_char(s[i])]

\* str(n): the decimal text of n, kept apart from the integer n.
str(n) == [decimal |-> n]

RECURSIVE SeqsUpTo(_, _)
SeqsUpTo(S, n) ==
    IF n = 0 THEN {<<>>}
    ELSE LET shorter == SeqsUpTo(S, n - 1)
         IN shorter \cup {Append(s, x) : s \in {t \in shorter : Len(t) = n - 1}, x \in S}

Symbols == SeqsUpTo(Chars, MaxSymLen) \ {<<>>}

(***************************************************************************)
(* A call: the method and its arguments, NoArg where the method has none.  *)
(***************************************************************************)
Call(op, symbol, adjusted, interval, series_type, output_size, data_format, periods) ==
    [op |-> op, symbol |-> symbol, adjusted |-> adjusted, interval |-> interval,
     series_type |-> series_type, output_size |-> output_size,
     data_format |-> data_format, periods |-> periods]

NoCall == Call("-", <<>>, FALSE, NoArg, NoArg, NoArg, NoArg, <<>>)
NoResponse == [status |-> 0, content_type |-> "-", body |-> [lines |-> <<>>, json |-> None]]

NoError == "None"

client == <<apikey, base_url, max_attempts, ctor>>

(***************************************************************************)
(* Client.__init__                                                         *)
(***************************************************************************)
BaseUrl == "https://www.alphavantage.co/query?"

\* The client after Client(token, max_attempts), no call running.
Constructed(token, attempts) ==
    /\ apikey = token
    /\ base_url = BaseUrl
    /\ max_attempts = attempts
    /\ ctor = [token |-> token, max_attempts |-> attempts]
    /\ pc = "idle"
    /\ call = NoCall
    /\ params = <<>>
    /\ gets = 0
    /\ response = NoResponse
    /\ normalizer = "none"
    /\ returned = None
    /\ raised = NoError

Init == \E token \in Tokens, attempts \in 0..MaxAttempts : Constructed(token, attempts)

(***************************************************************************)
(* The first half of every method: the asserts on the enumerated           *)
(* arguments, the params dict, and requests.get(self.base_url, params).    *)
(* A failing assert raises AssertionError before the dict is built.        *)
(***************************************************************************)
Invoke(c, asserts_hold, built) ==
    /\ call' = c
    /\ IF asserts_hold
       THEN /\ params' = built
            /\ gets' = gets + 1
            /\ pc' = "sent"
            /\ raised' = NoError
       ELSE /\ params' = <<>>
            /\ gets' = gets
            /\ pc' = "done"
            /\ raised' = "AssertionError"
    /\ UNCHANGED <<client, response, normalizer, returned>>

\* ts_daily: the asserts, lines 72-73.
ts_daily_asserts(c) ==
    /\ c.output_size \in output_sizes
    /\ c.data_format \in data_formats

\* func without the suffix.
ts_daily_func_unadjusted(adjusted) == "TIME_SERIES_DAILY"

\* ts_daily: func, lines 74-76.
ts_daily_func(adjusted) ==
    IF adjusted THEN "TIME_SERIES_DAILY" \o "_ADJUSTED" ELSE "TIME_SERIES_DAILY"

\* ts_daily: the params dict, lines 77-83.
ts_daily_params(c) ==
    << <<"function", ts_daily_func(c.adjusted)>>,
       <<"symbol", upper(c.symbol)>>,
       <<"outputsize", c.output_size>>,
       <<"datatype", c.data_format>>,
       <<"apikey", apikey>> >>

ts_daily(Syms, Pers) ==
    /\ pc = "idle"
    /\ \E symbol \in Syms, adjusted \in Bools, output_size \in AnyOutputSize, data_format \in AnyDataFormat :
           LET c == Call("ts_daily", symbol, adjusted, NoArg, NoArg, output_size, data_format, <<>>)
           IN Invoke(c, ts_daily_asserts(c), ts_daily_params(c))

\* sma: the asserts, lines 107-109.
sma_asserts(c) ==
    /\ c.interval \in intervals
    /\ c.series_type \in series_types
    /\ c.data_format \in data_formats

\* sma: the params dict, lines 110-118.
sma_params(c) ==
    << <<"function", "SMA">>,
       <<"symbol", upper(c.symbol)>>,
       <<"interval", c.interval>>,
       <<"time_period", c.periods[1]>>,
       <<"series_type", c.series_type>>,
       <<"datatype", c.data_format>>,
       <<"apikey", apikey>> >>

sma(Syms, Pers) ==
    /\ pc = "idle"
    /\ \E symbol \in Syms, interval \in AnyInterval, series_type \in AnySeriesType, data_format \in AnyDataFormat, p1 \in Pers :
           LET c == Call("sma", symbol, FALSE, interval, series_type, NoArg, data_format, <<p1>>)
           IN Invoke(c, sma_asserts(c), sma_params(c))

\* ema: the asserts, lines 141-143.
ema_asserts(c) ==
    /\ c.interval \in intervals
    /\ c.series_type \in series_types
    /\ c.data_format \in data_formats

\* ema: the params dict, lines 144-152.
ema_params(c) ==
    << <<"function", "EMA">>,
       <<"symbol", upper(c.symbol)>>,
       <<"interval", c.interval>>,
       <<"time_period", c.periods[1]>>,
       <<"series_type", c.series_type>>,
       <<"datatype", c.data_format>>,
       <<"apikey", apikey>> >>

ema(Syms, Pers) ==
    /\ pc = "idle"
    /\ \E symbol \in Syms, interval \in AnyInterval, series_type \in AnySeriesType, data_format \in AnyDataFormat, p1 \in Pers :
           LET c == Call("ema", symbol, FALSE, interval, series_type, NoArg, data_format, <<p1>>)
           IN Invoke(c, ema_asserts(c), ema_params(c))

\* wma: the asserts, lines 175-177.
wma_asserts(c) ==
    /\ c.interval \in intervals
    /\ c.series_type \in series_types
    /\ c.data_format \in data_formats

\* wma: the params dict, lines 178-186.
wma_params(c) ==
    << <<"function", "WMA">>,
       <<"symbol", upper(c.symbol)>>,
       <<"interval", c.interval>>,
       <<"time_period", c.periods[1]>>,
       <<"series_type", c.series_type>>,
       <<"datatype", c.data_format>>,
       <<"apikey", apikey>> >>

wma(Syms, Pers) ==
    /\ pc = "idle"
    /\ \E symbol \in Syms, interval \in AnyInterval, series_type \in AnySeriesType, data_format \in AnyDataFormat, p1 \in Pers :
           LET c == Call("wma", symbol, FALSE, interval, series_type, NoArg, data_format, <<p1>>)
           IN Invoke(c, wma_asserts(c), wma_params(c))

\* macd: the asserts, lines 213-215.
macd_asserts(c) ==
    /\ c.interval \in intervals
    /\ c.series_type \in series_types
    /\ c.data_format \in data_formats

\* macd: the params dict, lines 216-226.
macd_params(c) ==
    << <<"function", "MACD">>,
       <<"symbol", upper(c.symbol)>>,
       <<"interval", c.interval>>,
       <<"fastperiod", c.periods[1]>>,
       <<"slowperiod", c.periods[2]>>,
       <<"signalperiod", c.periods[3]>>,
       <<"series_type", c.series_type>>,
       <<"datatype", c.data_format>>,
       <<"apikey", apikey>> >>

macd(Syms, Pers) ==
    /\ pc = "idle"
    /\ \E symbol \in Syms, interval \in AnyInterval, series_type \in AnySeriesType, data_format \in AnyDataFormat, p1, p2, p3 \in Pers :
           LET c == Call("macd", symbol, FALSE, interval, series_type, NoArg, data_format, <<p1, p2, p3>>)
           IN Invoke(c, macd_asserts(c), macd_params(c))

\* stoch without its assert on data_format.
stoch_asserts_interval_only(c) ==
    /\ c.interval \in intervals

\* stoch: the asserts, lines 251-252.
stoch_asserts(c) ==
    /\ c.interval \in intervals
    /\ c.data_format \in data_formats

\* stoch: the params dict, lines 253-262.
stoch_params(c) ==
    << <<"function", "STOCH">>,
       <<"symbol", upper(c.symbol)>>,
       <<"interval", c.interval>>,
       <<"fastkperiod", c.periods[1]>>,
       <<"slowkperiod", c.periods[2]>>,
       <<"slowdperiod", c.periods[3]>>,
       <<"datatype", c.data_format>>,
       <<"apikey", apikey>> >>

stoch(Syms, Pers) ==
    /\ pc = "idle"
    /\ \E symbol \in Syms, interval \in AnyInterval, data_format \in AnyDataFormat, p1, p2, p3 \in Pers :
           LET c == Call("stoch", symbol, FALSE, interval, NoArg, NoArg, data_format, <<p1, p2, p3>>)
           IN Invoke(c, stoch_asserts(c), stoch_params(c))

\* rsi: the asserts, lines 285-287.
rsi_asserts(c) ==
    /\ c.interval \in intervals
    /\ c.series_type \in series_types
    /\ c.data_format \in data_formats

\* rsi: the params dict, lines 288-296.
rsi_params(c) ==
    << <<"function", "RSI">>,
       <<"symbol", upper(c.symbol)>>,
       <<"interval", c.interval>>,
       <<"time_period", c.periods[1]>>,
       <<"series_type", c.series_type>>,
       <<"datatype", c.data_format>>,
       <<"apikey", apikey>> >>

rsi(Syms, Pers) ==
    /\ pc = "idle"
    /\ \E symbol \in Syms, interval \in AnyInterval, series_type \in AnySeriesType, data_format \in AnyDataFormat, p1 \in Pers :
           LET c == Call("rsi", symbol, FALSE, interval, series_type, NoArg, data_format, <<p1>>)
           IN Invoke(c, rsi_asserts(c), rsi_params(c))

\* momentum: the asserts, lines 319-321.
momentum_asserts(c) ==
    /\ c.interval \in intervals
    /\ c.series_type \in series_types
    /\ c.data_format \in data_formats

\* momentum: the params dict, lines 322-330.
momentum_params(c) ==
    << <<"function", "MOM">>,
       <<"symbol", upper(c.symbol)>>,
       <<"interval", c.interval>>,
       <<"time_period", c.periods[1]>>,
       <<"series_type", c.series_type>>,
       <<"datatype", c.data_format>>,
       <<"apikey", apikey>> >>

momentum(Syms, Pers) ==
    /\ pc = "idle"
    /\ \E symbol \in Syms, interval \in AnyInterval, series_type \in AnySeriesType, data_format \in AnyDataFormat, p1 \in Pers :
           LET c == Call("momentum", symbol, FALSE, interval, series_type, NoArg, data_format, <<p1>>)
           IN Invoke(c, momentum_asserts(c), momentum_params(c))

\* ppo: the asserts, lines 355-357.
ppo_asserts(c) ==
    /\ c.interval \in intervals
    /\ c.series_type \in series_types
    /\ c.data_format \in data_formats

\* ppo: the params dict, lines 358-367.
ppo_params(c) ==
    << <<"function", "PPO">>,
       <<"symbol", upper(c.symbol)>>,
       <<"interval", c.interval>>,
       <<"fastperiod", c.periods[1]>>,
       <<"slowperiod", c.periods[2]>>,
       <<"series_type", c.series_type>>,
       <<"datatype", c.data_format>>,
       <<"apikey", apikey>> >>

ppo(Syms, Pers) ==
    /\ pc = "idle"
    /\ \E symbol \in Syms, interval \in AnyInterval, series_type \in AnySeriesType, data_format \in AnyDataFormat, p1, p2 \in Pers :
           LET c == Call("ppo", symbol, FALSE, interval, series_type, NoArg, data_format, <<p1, p2>>)
           IN Invoke(c, ppo_asserts(c), ppo_params(c))

\* ad: the asserts, lines 383-384.
ad_asserts(c) ==
    /\ c.interval \in intervals
    /\ c.data_format \in data_formats

\* ad: the params dict, lines 385-391.
ad_params(c) ==
    << <<"function", "AD">>,
       <<"symbol", upper(c.symbol)>>,
       <<"interval", c.interval>>,
       <<"datatype", c.data_format>>,
       <<"apikey", apikey>> >>

ad(Syms, Pers) ==
    /\ pc = "idle"
    /\ \E symbol \in Syms, interval \in AnyInterval, data_format \in AnyDataFormat :
           LET c == Call("ad", symbol, FALSE, interval, NoArg, NoArg, data_format, <<>>)
           IN Invoke(c, ad_asserts(c), ad_params(c))

\* adx: the asserts, lines 412-413.
adx_asserts(c) ==
    /\ c.interval \in intervals
    /\ c.data_format \in data_formats

\* adx with a time_period below 1 raised to 1.
adx_params_period_at_least_1(c) ==
    << <<"function", "ADX">>,
       <<"symbol", upper(c.symbol)>>,
       <<"interval", c.interval>>,
       <<"time_period", str(IF c.periods[1] < 1 THEN 1 ELSE c.periods[1])>>,
       <<"datatype", c.data_format>>,
       <<"apikey", apikey>> >>

\* adx: the params dict, lines 414-421.
adx_params(c) ==
    << <<"function", "ADX">>,
       <<"symbol", upper(c.symbol)>>,
       <<"interval", c.interval>>,
       <<"time_period", str(c.periods[1])>>,
       <<"datatype", c.data_format>>,
       <<"apikey", apikey>> >>

adx(Syms, Pers) ==
    /\ pc = "idle"
    /\ \E symbol \in Syms, interval \in AnyInterval, data_format \in AnyDataFormat, p1 \in Pers :
           LET c == Call("adx", symbol, FALSE, interval, NoArg, NoArg, data_format, <<p1>>)
           IN Invoke(c, adx_asserts(c), adx_params(c))

\* cci: the asserts, lines 442-443.
cci_asserts(c) ==
    /\ c.interval \in intervals
    /\ c.data_format \in data_formats

\* cci: the params dict, lines 444-451.
cci_params(c) ==
    << <<"function", "CCI">>,
       <<"symbol", upper(c.symbol)>>,
       <<"interval", c.interval>>,
       <<"time_period", str(c.periods[1])>>,
       <<"datatype", c.data_format>>,
       <<"apikey", apikey>> >>

cci(Syms, Pers) ==
    /\ pc = "idle"
    /\ \E symbol \in Syms, interval \in AnyInterval, data_format \in AnyDataFormat, p1 \in Pers :
           LET c == Call("cci", symbol, FALSE, interval, NoArg, NoArg, data_format, <<p1>>)
           IN Invoke(c, cci_asserts(c), cci_params(c))

\* aroon: the asserts, lines 472-473.
aroon_asserts(c) ==
    /\ c.interval \in intervals
    /\ c.data_format \in data_formats

\* aroon: the params dict, lines 474-481.
aroon_params(c) ==
    << <<"function", "AROON">>,
       <<"symbol", upper(c.symbol)>>,
       <<"interval", c.interval>>,
       <<"time_period", str(c.periods[1])>>,
       <<"datatype", c.data_format>>,
       <<"apikey", apikey>> >>

aroon(Syms, Pers) ==
    /\ pc = "idle"
    /\ \E symbol \in Syms, interval \in AnyInterval, data_format \in AnyDataFormat, p1 \in Pers :
           LET c == Call("aroon", symbol, FALSE, interval, NoArg, NoArg, data_format, <<p1>>)
           IN Invoke(c, aroon_asserts(c), aroon_params(c))

\* aroon_osc: the asserts, lines 502-503.
aroon_osc_asserts(c) ==
    /\ c.interval \in intervals
    /\ c.data_format \in data_formats

\* aroon_osc: the params dict, lines 504-511.
aroon_osc_params(c) ==
    << <<"function", "AROONOSC">>,
       <<"symbol", upper(c.symbol)>>,
       <<"interval", c.interval>>,
       <<"time_period", str(c.periods[1])>>,
       <<"datatype", c.data_format>>,
       <<"apikey", apikey>> >>

aroon_osc(Syms, Pers) ==
    /\ pc = "idle"
    /\ \E symbol \in Syms, interval \in AnyInterval, data_format \in AnyDataFormat, p1 \in Pers :
           LET c == Call("aroon_osc", symbol, FALSE, interval, NoArg, NoArg, data_format, <<p1>>)
           IN Invoke(c, aroon_osc_asserts(c), aroon_osc_params(c))

\* ultimate_osc: the asserts, lines 536-537.
ultimate_osc_asserts(c) ==
    /\ c.interval \in intervals
    /\ c.data_format \in data_formats

\* ultimate_osc with timeperiod1 written where timeperiod2 belongs.
ultimate_osc_params_repeated_key(c) ==
    << <<"function", "ULTOSC">>,
       <<"symbol", upper(c.symbol)>>,
       <<"interval", c.interval>>,
       <<"timeperiod1", str(c.periods[1])>>,
       <<"timeperiod1", str(c.periods[2])>>,
       <<"timeperiod3", str(c.periods[3])>>,
       <<"datatype", c.data_format>>,
       <<"apikey", apikey>> >>

\* ultimate_osc: the params dict, lines 538-547.
ultimate_osc_params(c) ==
    << <<"function", "ULTOSC">>,
       <<"symbol", upper(c.symbol)>>,
       <<"interval", c.interval>>,
       <<"timeperiod1", str(c.periods[1])>>,
       <<"timeperiod2", str(c.periods[2])>>,
       <<"timeperiod3", str(c.periods[3])>>,
       <<"datatype", c.data_format>>,
       <<"apikey", apikey>> >>

ultimate_osc(Syms, Pers) ==
    /\ pc = "idle"
    /\ \E symbol \in Syms, interval \in AnyInterval, data_format \in AnyDataFormat, p1, p2, p3 \in Pers :
           LET c == Call("ultimate_osc", symbol, FALSE, interval, NoArg, NoArg, data_format, <<p1, p2, p3>>)
           IN Invoke(c, ultimate_osc_asserts(c), ultimate_osc_params(c))

\* hilbert_transform_sine: the asserts, lines 568-570.
hilbert_transform_sine_asserts(c) ==
    /\ c.interval \in intervals
    /\ c.series_type \in series_types
    /\ c.data_format \in data_formats

\* hilbert_transform_sine: the params dict, lines 571-578.
hilbert_transform_sine_params(c) ==
    << <<"function", "HT_SINE">>,
       <<"symbol", upper(c.symbol)>>,
       <<"interval", c.interval>>,
       <<"series_type", c.series_type>>,
       <<"datatype", c.data_format>>,
       <<"apikey", apikey>> >>

hilbert_transform_sine(Syms, Pers) ==
    /\ pc = "idle"
    /\ \E symbol \in Syms, interval \in AnyInterval, series_type \in AnySeriesType, data_format \in AnyDataFormat :
           LET c == Call("hilbert_transform_sine", symbol, FALSE, interval, series_type, NoArg, data_format, <<>>)
           IN Invoke(c, hilbert_transform_sine_asserts(c), hilbert_transform_sine_params(c))

\* hilbert_transform_trendmode: the asserts, lines 599-601.
hilbert_transform_trendmode_asserts(c) ==
    /\ c.interval \in intervals
    /\ c.series_type \in series_types
    /\ c.data_format \in data_formats

\* hilbert_transform_trendmode: the params dict, lines 602-609.
hilbert_transform_trendmode_params(c) ==
    << <<"function", "HT_TRENDMODE">>,
       <<"symbol", upper(c.symbol)>>,
       <<"interval", c.interval>>,
       <<"series_type", c.series_type>>,
       <<"datatype", c.data_format>>,
       <<"apikey", apikey>> >>

hilbert_transform_trendmode(Syms, Pers) ==
    /\ pc = "idle"
    /\ \E symbol \in Syms, interval \in AnyInterval, series_type \in AnySeriesType, data_format \in AnyDataFormat :
           LET c == Call("hilbert_transform_trendmode", symbol, FALSE, interval, series_type, NoArg, data_format, <<>>)
           IN Invoke(c, hilbert_transform_trendmode_asserts(c), hilbert_transform_trendmode_params(c))

\* hilbert_transform_dcperiod without its assert on data_format.
hilbert_transform_dcperiod_asserts_no_format(c) ==
    /\ c.interval \in intervals
    /\ c.series_type \in series_types

\* hilbert_transform_dcperiod: the asserts, lines 630-632.
hilbert_transform_dcperiod_asserts(c) ==
    /\ c.interval \in intervals
    /\ c.series_type \in series_types
    /\ c.data_format \in data_formats

\* hilbert_transform_dcperiod: the params dict, lines 633-640.
hilbert_transform_dcperiod_params(c) ==
    << <<"function", "HT_DCPERIOD">>,
       <<"symbol", upper(c.symbol)>>,
       <<"interval", c.interval>>,
       <<"series_type", c.series_type>>,
       <<"datatype", c.data_format>>,
       <<"apikey", apikey>> >>

hilbert_transform_dcperiod(Syms, Pers) ==
    /\ pc = "idle"
    /\ \E symbol \in Syms, interval \in AnyInterval, series_type \in AnySeriesType, data_format \in AnyDataFormat :
           LET c == Call("hilbert_transform_dcperiod", symbol, FALSE, interval, series_type, NoArg, data_format, <<>>)
           IN Invoke(c, hilbert_transform_dcperiod_asserts(c), hilbert_transform_dcperiod_params(c))

\* Every public method, with its arguments drawn from Syms and Pers.
Methods(Syms, Pers) ==
    \/ ts_daily(Syms, Pers)
    \/ sma(Syms, Pers)
    \/ ema(Syms, Pers)
    \/ wma(Syms, Pers)
    \/ macd(Syms, Pers)
    \/ stoch(Syms, Pers)
    \/ rsi(Syms, Pers)
    \/ momentum(Syms, Pers)
    \/ ppo(Syms, Pers)
    \/ ad(Syms, Pers)
    \/ adx(Syms, Pers)
    \/ cci(Syms, Pers)
    \/ aroon(Syms, Pers)
    \/ aroon_osc(Syms, Pers)
    \/ ultimate_osc(Syms, Pers)
    \/ hilbert_transform_sine(Syms, Pers)
    \/ hilbert_transform_trendmode(Syms, Pers)
    \/ hilbert_transform_dcperiod(Syms, Pers)

(***************************************************************************)
(* Response bodies.  A body is a text; the model keeps the two readings    *)
(* the normalizers take of it: `lines`, its rows of fields as delimited    *)
(* text, and `json`, the value it denotes as JSON text (None when it is    *)
(* not JSON text).                                                         *)
(***************************************************************************)
Fields == {"007", "x"}
HeaderNames == {"date", "time"}

Body(lines, json) == [lines |-> lines, json |-> json]
Payload(value) == [kind |-> "payload", value |-> value]

\* date,open / x,007 / x,100      (delimited text, not JSON)
CsvDoc == Body(<< <<"date", "open">>, <<"x", "007">>, <<"x", "100">> >>, None)
\* {"a": 1}                       (JSON text; as delimited text, one header cell)
JsonDoc == Body(<< <<"{\"a\": 1}">> >>, Payload([a |-> 1]))

(***************************************************************************)
(* pandas.read_csv(StringIO(decoded)) with its defaults, on the rows of    *)
(* fields the tokenizer makes of the text.                                 *)
(***************************************************************************)
Cell(dtype, repr) == [dtype |-> dtype, repr |-> repr]
NaN == Cell("float64", "nan")
Text(f) == Cell("object", f)

\* Some of read_csv's default na_values.
NaValues == {"", "NA", "NaN", "null"}

\* The integer a field of digits denotes, as pandas prints it.
IntRepr == ("007" :> "7") @@ ("100" :> "100") @@ ("101" :> "101")
IsIntText(f) == f \in DOMAIN IntRepr

Max(a, b) == IF a >= b THEN a ELSE b

\* Blank lines are skipped (skip_blank_lines=True).
skip_blank_lines(lines) == SelectSeq(lines, LAMBDA l : l # <<"">>)

\* Duplicate header names are numbered: a, a.1, a.2 (mangle_dupe_cols).
mangle_dupe_cols(header) ==
    [i \in DOMAIN header |->
        LET earlier == Cardinality({j \in 1..(i - 1) : header[j] = header[i]})
        IN IF earlier = 0 THEN header[i] ELSE header[i] \o "." \o ToString(earlier)]

\* A short row is filled with missing fields up to the table's width.
pad_row(row, width) == [j \in 1..width |-> IF j <= Len(row) THEN row[j] ELSE ""]

\* One column's dtype inference: integers when every field is integer
\* text, floats when some of them are missing, else the texts themselves.
infer_column(col) ==
    LET present == {i \in DOMAIN col : col[i] \notin NaValues}
    IN IF \A i \in present : IsIntText(col[i])
       THEN IF present = DOMAIN col
            THEN [i \in DOMAIN col |-> Cell("int64", IntRepr[col[i]])]
            ELSE [i \in DOMAIN col |->
                    IF i \in present THEN Cell("float64", IntRepr[col[i]] \o ".0") ELSE NaN]
       ELSE [i \in DOMAIN col |-> IF i \in present THEN Text(col[i]) ELSE NaN]

NoFrame == [index_names |-> <<>>, index |-> <<>>, columns |-> <<>>, rows |-> <<>>]

\* The C tokenizer accepts a first data row longer than the header (its
\* leading fields become the index), fills short rows, and fails on a later
\* row longer than the width the first data row set.
read_csv(text) ==
    LET lines == skip_blank_lines(text)
    IN IF lines = <<>>
       THEN [exc |-> "EmptyDataError", frame |-> NoFrame]
       ELSE
       LET header == mangle_dupe_cols(lines[1])
           n == Len(header)
           data == Tail(lines)
           m == Len(data)
           width == IF m = 0 THEN n ELSE Max(n, Len(data[1]))
           leading_cols == width - n
           padded == [k \in 1..m |-> pad_row(data[k], width)]
           typed == [j \in 1..width |-> infer_column([k \in 1..m |-> padded[k][j]])]
       IN IF \E k \in 2..m : Len(data[k]) > width
          THEN [exc |-> "ParserError", frame |-> NoFrame]
          ELSE [exc |-> NoError,
                frame |->
                  [index_names |-> <<>>,
                   index |-> [k \in 1..m |->
                                IF leading_cols = 0
                                THEN <<Cell("int64", ToString(k - 1))>>
                                ELSE [j \in 1..leading_cols |-> typed[j][k]]],
                   columns |-> header,
                   rows |-> [k \in 1..m |-> [j \in 1..n |-> typed[leading_cols + j][k]]]]]

\* Sequence s without its element at position j.
Without(s, j) == [i \in 1..(Len(s) - 1) |-> IF i < j THEN s[i] ELSE s[i + 1]]

\* set_index that keeps only the first row of every key.
set_index_first_of_key(data, key) ==
    LET hits == {j \in DOMAIN data.columns : data.columns[j] = key}
    IN IF hits = {}
       THEN [exc |-> "KeyError", frame |-> NoFrame]
       ELSE IF Cardinality(hits) > 1
       THEN [exc |-> "ValueError", frame |-> NoFrame]
       ELSE LET j == CHOOSE h \in hits : TRUE
                firsts == SelectSeq([k \in DOMAIN data.rows |-> k],
                                    LAMBDA k : \A e \in 1..(k - 1) :
                                                  data.rows[e][j] # data.rows[k][j])
            IN [exc |-> NoError,
                frame |->
                  [index_names |-> <<key>>,
                   index |-> [i \in DOMAIN firsts |-> <<data.rows[firsts[i]][j]>>],
                   columns |-> Without(data.columns, j),
                   rows |-> [i \in DOMAIN firsts |-> Without(data.rows[firsts[i]], j)]]]

\* DataFrame.set_index(key): the column named key becomes the index and
\* leaves the columns; the former index is dropped.  Rows keep their order.
set_index(data, key) ==
    LET hits == {j \in DOMAIN data.columns : data.columns[j] = key}
    IN IF hits = {}
       THEN [exc |-> "KeyError", frame |-> NoFrame]
       ELSE IF Cardinality(hits) > 1
       THEN \* data[key] is a frame, not a column: Index data must be 1-dimensional
            [exc |-> "ValueError", frame |-> NoFrame]
       ELSE LET j == CHOOSE h \in hits : TRUE
            IN [exc |-> NoError,
                frame |->
                  [index_names |-> <<key>>,
                   index |-> [k \in DOMAIN data.rows |-> <<data.rows[k][j]>>],
                   columns |-> Without(data.columns, j),
                   rows |-> [k \in DOMAIN data.rows |-> Without(data.rows[k], j)]]]

Table(frame) == [kind |-> "table", value |-> frame]
Outcome(value, exc) == [returned |-> value, raised |-> exc]

(***************************************************************************)
(* Client.process_csv and Client.process_json                              *)
(***************************************************************************)
\* columns[0] = "time" unless it already reads "time" (lines 48-51).
rename_first(columns) ==
    IF columns[1] # "time" THEN [columns EXCEPT ![1] = "time"] ELSE columns

process_csv(r) ==
    LET parsed == read_csv(r.body.lines)
    IN IF parsed.exc # NoError
       THEN Outcome(None, parsed.exc)
       ELSE LET data == [parsed.frame EXCEPT !.columns = rename_first(@)]
                indexed == set_index(data, "time")
            IN IF indexed.exc # NoError
               THEN Outcome(None, indexed.exc)
               ELSE Outcome(Table(indexed.frame), NoError)

\* r.json(): the value the body denotes, JSONDecodeError when it is not JSON.
process_json(r) ==
    IF r.body.json = None
    THEN Outcome(None, "JSONDecodeError")
    ELSE Outcome(r.body.json, NoError)

(***************************************************************************)
(* The transport and the second half of every method.                      *)
(***************************************************************************)
\* 300 is a status requests does not follow as a redirect.
Statuses == {200, 300, 404, 500}
ContentTypes == {"text/csv", "application/json"}
Bodies == {CsvDoc, JsonDoc}
Responses == [status : Statuses, content_type : ContentTypes, body : Bodies]

\* Response.raise_for_status(): HTTPError for a 4xx or a 5xx status.
raise_for_status(status) == 400 <= status /\ status < 600

\* The normalizer chosen by the response's Content-Type.
dispatch_by_content_type(data_format, r) ==
    IF r.content_type = "text/csv" THEN "csv" ELSE "json"

\* if data_format == "csv": process_csv, else: process_json.
dispatch(data_format, r) == IF data_format = "csv" THEN "csv" ELSE "json"

\* A response that uses up one of the client's attempts.
respond_counting_attempt(r) ==
    /\ pc = "sent"
    /\ response' = r
    /\ pc' = "done"
    /\ IF raise_for_status(r.status)
       THEN /\ normalizer' = "none"
            /\ returned' = None
            /\ raised' = "HTTPError"
            /\ max_attempts' = max_attempts - 1
       ELSE LET which == dispatch(call.data_format, r)
                out == IF which = "csv" THEN process_csv(r) ELSE process_json(r)
            IN /\ normalizer' = which
               /\ returned' = out.returned
               /\ raised' = out.raised
               /\ max_attempts' = max_attempts
    /\ UNCHANGED <<apikey, base_url, ctor, call, params, gets>>

\* requests.get returns r; r.raise_for_status(); then the normalizer.
respond(r) ==
    /\ pc = "sent"
    /\ response' = r
    /\ pc' = "done"
    /\ IF raise_for_status(r.status)
       THEN /\ normalizer' = "none"
            /\ returned' = None
            /\ raised' = "HTTPError"
       ELSE LET which == dispatch(call.data_format, r)
                out == IF which = "csv" THEN process_csv(r) ELSE process_json(r)
            IN /\ normalizer' = which
               /\ returned' = out.returned
               /\ raised' = out.raised
    /\ UNCHANGED <<client, call, params, gets>>

transport_response == \E r \in Responses : respond(r)

\* requests.get raises and the request is sent again while attempts are left.
transport_error_retrying ==
    /\ pc = "sent"
    /\ IF gets < max_attempts
       THEN /\ gets' = gets + 1
            /\ pc' = "sent"
            /\ raised' = NoError
       ELSE /\ gets' = gets
            /\ pc' = "done"
            /\ raised' = "ConnectionError"
    /\ UNCHANGED <<client, call, params, response, normalizer, returned>>

\* requests.get raises (no connection, timeout): the exception propagates.
transport_error ==
    /\ pc = "sent"
    /\ pc' = "done"
    /\ raised' = "ConnectionError"
    /\ UNCHANGED <<client, call, params, gets, response, normalizer, returned>>

\* The call is over: its result or exception is the caller's, its locals
\* (params, r) are gone.
Return ==
    /\ pc = "done"
    /\ pc' = "idle"
    /\ call' = NoCall
    /\ params' = <<>>
    /\ gets' = 0
    /\ response' = NoResponse
    /\ normalizer' = "none"
    /\ returned' = None
    /\ raised' = NoError
    /\ UNCHANGED client

Next ==
    \/ Methods(CallSymbols, CallPeriods)
    \/ transport_response
    \/ transport_error
    \/ Return

Spec == Init /\ [][Next]_vars

(***************************************************************************)
(* The request builder alone: every method up to its requests.get, with    *)
(* symbols and periods drawn from the wide sets.                           *)
(***************************************************************************)
InitBuild == \E token \in Tokens : Constructed(token, DefaultMaxAttempts)

NextBuild == Methods(Symbols, Periods)

SpecBuild == InitBuild /\ [][NextBuild]_vars

(***************************************************************************)
(* process_csv alone, on every delimited text within the bounds: a header  *)
(* of n cells and rows of n - 1, n or n + 1 fields.                        *)
(***************************************************************************)
RowsFor(n) == UNION {[1..k -> Fields] : k \in Max(1, n - 1)..(n + 1)}

\* process_csv is about to be called on a response with this text.
GivenText(text) ==
    /\ apikey = "demo"
    /\ base_url = BaseUrl
    /\ max_attempts = DefaultMaxAttempts
    /\ ctor = [token |-> "demo", max_attempts |-> DefaultMaxAttempts]
    /\ pc = "parse"
    /\ call = NoCall
    /\ params = <<>>
    /\ gets = 0
    /\ response = [status |-> 200, content_type |-> "text/csv", body |-> Body(text, None)]
    /\ normalizer = "none"
    /\ returned = None
    /\ raised = NoError

InitCsv ==
    \/ GivenText(<<>>)
    \/ \E n \in 1..MaxCols, m \in 0..MaxRows :
           \E h \in [1..n -> HeaderNames], d \in [1..m -> RowsFor(n)] :
               GivenText(<<h>> \o d)

\* self.process_csv(r)
call_process_csv ==
    /\ pc = "parse"
    /\ pc' = "parsed"
    /\ normalizer' = "csv"
    /\ returned' = process_csv(response).returned
    /\ raised' = process_csv(response).raised
    /\ UNCHANGED <<client, call, params, gets, response>>

NextCsv == call_process_csv

SpecCsv == InitCsv /\ [][NextCsv]_vars

(***************************************************************************)
(* Properties.                                                             *)
(***************************************************************************)
\* The value a params dict holds under a key.
Get(ps, key) == ps[CHOOSE i \in DOMAIN ps : ps[i][1] = key][2]
HasKey(ps, key) == \E i \in DOMAIN ps : ps[i][1] = key

\* An enumerated argument of the call lies outside its allowed set.
BadArgs(c) ==
    \/ c.interval # NoArg /\ c.interval \notin intervals
    \/ c.series_type # NoArg /\ c.series_type \notin series_types
    \/ c.output_size # NoArg /\ c.output_size \notin output_sizes
    \/ c.data_format # NoArg /\ c.data_format \notin data_formats

InCall == pc \in {"sent", "done"}

\* C1: a call with an enumerated argument (interval, series_type,
\* output_size, data_format) outside its allowed set fails with the
\* argument error (AssertionError) and never invokes the transport: no GET
\* is counted, no params are built, no response exists.
C1_InvalidArgumentNoRequest ==
    (InCall /\ BadArgs(call)) =>
        /\ pc = "done"
        /\ raised = "AssertionError"
        /\ gets = 0
        /\ params = <<>>
        /\ response = NoResponse
        /\ normalizer = "none"
        /\ returned = None

C1_Witness ==
    /\ pc = "done"
    /\ call.op = "stoch"
    /\ call.interval \in intervals
    /\ call.data_format \notin data_formats
    /\ raised = "AssertionError"
    /\ gets = 0

Success(status) == 200 <= status /\ status < 300

Responded == pc = "done" /\ response # NoResponse

\* C3: a response with a non-success status makes the call raise, its body
\* reaches neither normalizer, and a normalized result is returned only
\* after a response with a success status.
C3_NonSuccessRaises ==
    /\ (Responded /\ ~Success(response.status)) =>
           (raised = "HTTPError" /\ normalizer = "none" /\ returned = None)
    /\ returned # None => Success(response.status)

\* C4: ts_daily sends function TIME_SERIES_DAILY_ADJUSTED when adjusted is
\* true and TIME_SERIES_DAILY when it is false, whatever the other
\* arguments are.
C4_DailyFunction ==
    (pc = "sent" /\ call.op = "ts_daily") =>
        Get(params, "function") =
            (IF call.adjusted THEN "TIME_SERIES_DAILY_ADJUSTED" ELSE "TIME_SERIES_DAILY")

C4_Witness ==
    /\ pc = "sent"
    /\ call.op = "ts_daily"
    /\ call.adjusted
    /\ call.output_size = "compact"
    /\ Get(params, "function") = "TIME_SERIES_DAILY_ADJUSTED"

\* The upper-case form of a character, stated apart from upper_char.
LowerCase == {"a", "b"}
UpperOf(ch) == IF ch = "a" THEN "A" ELSE IF ch = "b" THEN "B" ELSE ch
IsUpperCased(u, s) ==
    /\ Len(u) = Len(s)
    /\ \A i \in 1..Len(s) : u[i] = UpperOf(s[i])

\* C5: in every method the symbol parameter is the upper-cased symbol
\* argument; a symbol with no lower-case letter is sent unchanged, and
\* upper-casing the sent value again changes nothing.
C5_SymbolUpperCased ==
    pc = "sent" =>
        /\ IsUpperCased(Get(params, "symbol"), call.symbol)
        /\ (\A i \in 1..Len(call.symbol) : call.symbol[i] \notin LowerCase) =>
               Get(params, "symbol") = call.symbol
        /\ IsUpperCased(Get(params, "symbol"), Get(params, "symbol"))

C5_Witness ==
    /\ pc = "sent"
    /\ call.op = "ad"
    /\ call.symbol = <<"a", "B">>
    /\ Get(params, "symbol") = <<"A", "B">>

\* C6: the params of every request have unique keys, hold function,
\* symbol, datatype and apikey, the apikey is the constructor's token, and
\* apikey is the last key.
C6_ParamsShape ==
    pc = "sent" =>
        /\ \A i, j \in DOMAIN params : params[i][1] = params[j][1] => i = j
        /\ \A key \in {"function", "symbol", "datatype", "apikey"} : HasKey(params, key)
        /\ Get(params, "apikey") = ctor.token
        /\ params[Len(params)][1] = "apikey"

C6_Witness ==
    /\ pc = "sent"
    /\ call.op = "ultimate_osc"
    /\ Len(params) = 8
    /\ params[8] = <<"apikey", "KEY2">>

\* The text process_csv was given, its header and its data rows.
CsvText == response.body.lines
CsvHeader == CsvText[1]
CsvData == Tail(CsvText)

\* Every row has as many fields as the header.
WellFormed(text) ==
    /\ text # <<>>
    /\ \A k \in DOMAIN text : Len(text[k]) = Len(text[1])

\* Some row has more or fewer fields than the header.
Malformed(text) ==
    /\ text # <<>>
    /\ \E k \in DOMAIN text : Len(text[k]) # Len(text[1])

TwoTimeColumns(header) ==
    /\ header[1] # "time"
    /\ \E j \in 2..Len(header) : header[j] = "time"

\* The value read_csv makes of field f in a column of the fields col.
Inferred(f, col) ==
    IF \A i \in DOMAIN col : IsIntText(col[i])
    THEN Cell("int64", IntRepr[f])
    ELSE Text(f)

CsvColumn(j) == [k \in DOMAIN CsvData |-> CsvData[k][j]]

C8_MalformedFails ==
    (pc = "parsed" /\ Malformed(CsvText)) =>
        (raised = "ParserError" /\ returned = None)

\* C9: after a response that raise_for_status lets pass, the normalizer is
\* the one data_format names, whatever the Content-Type and the body are:
\* csv gives what process_csv makes of the body, json gives the value the
\* body denotes as JSON (a decode error when it denotes none).
C9_FormatSelectsNormalizer ==
    (Responded /\ raised # "HTTPError") =>
        /\ call.data_format = "csv" =>
              /\ normalizer = "csv"
              /\ returned = process_csv(response).returned
              /\ raised = process_csv(response).raised
              /\ returned # None => returned.kind = "table"
        /\ call.data_format = "json" =>
              /\ normalizer = "json"
              /\ response.body.json # None =>
                     (returned = response.body.json /\ raised = NoError)
              /\ response.body.json = None =>
                     (returned = None /\ raised = "JSONDecodeError")

C9_Witness ==
    /\ pc = "done"
    /\ call.data_format = "json"
    /\ response.status = 200
    /\ response.content_type = "text/csv"
    /\ response.body = JsonDoc
    /\ normalizer = "json"
    /\ returned = Payload([a |-> 1])

\* C10: the client's fields always equal what the constructor was given; a
\* finished call has exactly one outcome, a returned value or a raised
\* exception; a call starts with nothing of an earlier call; and after a
\* call returned the state is again the state after construction.
C10_AtomicNoStateRetained ==
    /\ apikey = ctor.token
    /\ base_url = BaseUrl
    /\ max_attempts = ctor.max_attempts
    /\ pc = "done" => ((returned # None) # (raised # NoError))
    /\ pc = "sent" => (returned = None /\ raised = NoError /\ response = NoResponse)
    /\ pc = "idle" => Constructed(ctor.token, ctor.max_attempts)

C10_Witness ==
    /\ pc = "done"
    /\ call.op = "rsi"
    /\ raised = "HTTPError"
    /\ returned = None
    /\ max_attempts = ctor.max_attempts
    /\ max_attempts = 2

\* The request parameters that carry a method's period arguments, in the
\* order of the arguments.
PeriodKeys(op) ==
    CASE op \in {"sma", "ema", "wma", "rsi", "momentum", "adx", "cci", "aroon", "aroon_osc"} ->
             <<"time_period">>
      [] op = "macd" -> <<"fastperiod", "slowperiod", "signalperiod">>
      [] op = "stoch" -> <<"fastkperiod", "slowkperiod", "slowdperiod">>
      [] op = "ppo" -> <<"fastperiod", "slowperiod">>
      [] op = "ultimate_osc" -> <<"timeperiod1", "timeperiod2", "timeperiod3">>
      [] OTHER -> <<>>

\* The methods that put a period into params as its decimal text.
TextPeriodOps == {"adx", "cci", "aroon", "aroon_osc", "ultimate_osc"}

DecimalText(n) == [decimal |-> n]

\* C11: a call whose enumerated arguments are allowed is never rejected
\* for its period arguments, zero and negative ones included: it reaches
\* requests.get, and each period parameter of the request carries the
\* integer the caller passed, as the integer itself or (adx, cci, aroon,
\* aroon_osc, ultimate_osc) as its decimal text.
C11_PeriodsPassedThrough ==
    (InCall /\ ~BadArgs(call)) =>
        /\ raised # "AssertionError"
        /\ gets = 1
        /\ Len(PeriodKeys(call.op)) = Len(call.periods)
        /\ \A i \in DOMAIN call.periods :
              /\ HasKey(params, PeriodKeys(call.op)[i])
              /\ IF call.op \in TextPeriodOps
                 THEN Get(params, PeriodKeys(call.op)[i]) = DecimalText(call.periods[i])
                 ELSE Get(params, PeriodKeys(call.op)[i]) = call.periods[i]

C11_Witness ==
    /\ pc = "sent"
    /\ call.op = "stoch"
    /\ call.periods = <<-1, 0, 14>>
    /\ Get(params, "fastkperiod") = -1
    /\ Get(params, "slowkperiod") = 0
    /\ Get(params, "slowdperiod") = 14

\* C12: the dispatch sends every data_format other than csv to
\* process_json, so only the asserts keep other formats out: whenever
\* process_json was invoked the call's data_format is json, and a call
\* with a data_format outside {csv, json} reaches neither the transport
\* nor a normalizer.
C12_ValidationIsTheOnlyGate ==
    /\ \A f \in AnyDataFormat \ {"csv"} : dispatch(f, response) = "json"
    /\ normalizer = "json" => call.data_format = "json"
    /\ normalizer = "csv" => call.data_format = "csv"
    /\ (InCall /\ call.data_format \notin data_formats) =>
           /\ gets = 0
           /\ response = NoResponse
           /\ normalizer = "none"
           /\ returned = None

C12_Witness ==
    /\ pc = "done"
    /\ call.op = "hilbert_transform_dcperiod"
    /\ call.data_format = "json"
    /\ normalizer = "json"
    /\ returned = Payload([a |-> 1])

====
